---------------------------- MODULE Spec2Model ----------------------------
(***************************************************************************)
(* Model of src/util/update_data.py of bitcoin-tools/btracker: the script  *)
(* reads the table of daily bars from a TSV file (newest row first), reads *)
(* the date of its first row, fetches a window of daily bars, merges the   *)
(* window into the in-memory table with one loop and rewrites the file.    *)
(*                                                                         *)
(* A timestamp is modelled at calendar-day granularity as an ordinal       *)
(* 1..MaxDate of a small calendar that crosses a year end; the file's      *)
(* Month/Day/Year columns are what strftime('%b'), .day and .year give for *)
(* it and pd.to_datetime parses them back.                                 *)
(***************************************************************************)
EXTENDS Integers, Sequences, FiniteSets, TLC

\* Bounds of the model.
MaxDate == 3    \* calendar days the table and the fetch window range over
MaxWin == 2     \* bars in a fetch window

\* float('nan'): the value a provider gives for a field it has no data for.
NaN == -999

Dates == 1..MaxDate

\* ------------------------------------------------------------------------
\* Calendar conversions (update_data.py lines 27, 87-89).
\* Ordinal 1 is Dec 31 2024, ordinal d >= 2 is Jan (d-1) 2025.

\* date.strftime('%b')
StrftimeMonth(date) == IF date <= 1 THEN "Dec" ELSE "Jan"

\* date.day
DayOf(date) == IF date <= 1 THEN 30 + date ELSE date - 1

\* date.year
YearOf(date) == IF date <= 1 THEN 2024 ELSE 2025

\* pd.to_datetime(f"{last_year}-{last_month}-{last_day}").tz_localize(None)
ToDatetime(year, month, day) ==
    IF year = 2024 /\ month = "Dec" THEN day - 30 ELSE day + 1

\* The timestamp of a row of the table, as line 27 reads it.
RowDate(r) == ToDatetime(r.Year, r.Month, r.Day)

\* ------------------------------------------------------------------------
\* Inputs.

\* A row already in the file before the first run.
OldRow(date) ==
    [Month |-> StrftimeMonth(date), Day |-> DayOf(date), Year |-> YearOf(date),
     Open |-> 100, High |-> 100, Low |-> 100, Close |-> 100,
     AdjClose |-> 100, Volume |-> 5]

\* The values one fetched bar can carry: two well-formed quotes, a negative
\* volume, a missing (NaN) volume and a missing (NaN) close.
BarValues ==
    { [Open |-> 101, High |-> 101, Low |-> 101, Close |-> 101, Volume |-> 7],
      [Open |-> 102, High |-> 102, Low |-> 102, Close |-> 102, Volume |-> 7],
      [Open |-> 101, High |-> 101, Low |-> 101, Close |-> 101, Volume |-> -1],
      [Open |-> 101, High |-> 101, Low |-> 101, Close |-> 101, Volume |-> NaN],
      [Open |-> 101, High |-> 101, Low |-> 101, Close |-> NaN, Volume |-> 7] }

\* One (date, row) pair of ticker_history.iterrows().
Bars == { [date |-> d, row |-> v] : d \in Dates, v \in BarValues }

RECURSIVE SeqsUpTo(_, _)
SeqsUpTo(S, n) ==
    IF n = 0 THEN {<<>>}
    ELSE LET shorter == SeqsUpTo(S, n - 1)
         IN  shorter \cup { Append(s, x) : s \in { t \in shorter : Len(t) = n - 1 }, x \in S }

\* Every window the provider can answer with: any order, repeated dates too.
Windows == SeqsUpTo(Bars, MaxWin)

\* The rows of the dates in S, newest first.
RECURSIVE TableOf(_)
TableOf(S) ==
    IF S = {} THEN <<>>
    ELSE LET newest == CHOOSE d \in S : \A e \in S : e <= d
         IN  <<OldRow(newest)>> \o TableOf(S \ {newest})

\* Every table the file can hold before the first run: sorted newest-first,
\* one row per date, possibly no row at all (a header-only file).
Tables == { TableOf(S) : S \in SUBSET Dates }

\* ------------------------------------------------------------------------
\* The pieces of the script.

\* pd.read_csv(INPUT_DATA_FILE, sep='\t')
ReadCsv(f) == f

\* df.iloc[0] raises IndexError on a frame with no rows.
IlocRaises(frame) == Len(frame) = 0

\* Slip: the last row of the frame is read, df.iloc[-1].
LastRecord_Oldest(frame) == frame[Len(frame)]

\* last_record = df.iloc[0]
LastRecord(frame) == frame[1]

\* last_date, from the Month/Day/Year of last_record
LastDate(frame) ==
    LET last_record == LastRecord(frame)
    IN  ToDatetime(last_record.Year, last_record.Month, last_record.Day)

\* ticker_history.tail(1).index[0] raises IndexError on an empty history.
TailRaises(history) == Len(history) = 0

\* Slip: the comparison is turned around.
ShouldSkip_Inverted(date, last) == date > last

\* Slip: the boundary date is skipped too, date <= last_date.
ShouldSkip_OrEqual(date, last) == date <= last

\* if date < last_date: continue
ShouldSkip(date, last) == date < last

\* Slip: the boundary row is never recognised, the fetched bar is appended
\* beside it.
IsLastDate_Never(date, last) == FALSE

\* if date == last_date
IsLastDate(date, last) == date = last

\* Slip: the slice keeps every row, df.iloc[0:].
DropFirst_Keep(frame) == frame

\* Slip: the slice cuts the oldest row, df.iloc[:-1].
DropFirst_Oldest(frame) == SubSeq(frame, 1, Len(frame) - 1)

\* df = df.iloc[1:]
DropFirst(frame) == SubSeq(frame, 2, Len(frame))

\* int(row['Volume']) raises ValueError on NaN.
IntRaises(v) == v = NaN

\* int(row['Volume']) of a number
IntOf(v) == v

\* new_row = {...}
NewRow(date, row) ==
    [Month |-> StrftimeMonth(date), Day |-> DayOf(date), Year |-> YearOf(date),
     Open |-> row.Open, High |-> row.High, Low |-> row.Low, Close |-> row.Close,
     AdjClose |-> row.Close, Volume |-> IntOf(row.Volume)]

\* Slip: the new row is put after the frame, pd.concat([df, new]).
Concat_After(new_row, frame) == frame \o <<new_row>>

\* pd.concat([pd.DataFrame([new_row]), df], ignore_index=True)
Concat(new_row, frame) == <<new_row>> \o frame

\* The frame the loop body works on once the date tests are passed.
Trimmed(date, last, frame) ==
    IF IsLastDate(date, last) THEN DropFirst(frame) ELSE frame

\* for date, row in ticker_history.iterrows(): the loop is over
LoopDone(k, history) == k > Len(history)

\* df.to_csv(OUTPUT_DATA_FILE, sep='\t', index=False)
ToCsv(frame) == frame

\* ------------------------------------------------------------------------
\* State.

VARIABLES
    file,            \* the rows of resources/data/historical_data.tsv
    window,          \* what the provider answers a history() request with
    pc,              \* where the script is
    df,              \* the in-memory frame
    last_date,       \* the date read from the first row (0: not read yet)
    ticker_history,  \* the fetched window
    i,               \* position of the loop in ticker_history
    err,             \* the exception that ended the run ("" while none)
    loaded,          \* the file as it was when the current run started
    writes,          \* to_csv calls of the current run
    rerun            \* TRUE in a run that follows a completed run

vars == <<file, window, pc, df, last_date, ticker_history, i, err, loaded,
          writes, rerun>>

Init ==
    /\ file \in Tables
    /\ window \in Windows
    /\ pc = "read_csv"
    /\ df = <<>>
    /\ last_date = 0
    /\ ticker_history = <<>>
    /\ i = 1
    /\ err = ""
    /\ loaded = file
    /\ writes = 0
    /\ rerun = FALSE

\* line 18
Load ==
    /\ pc = "read_csv"
    /\ df' = ReadCsv(file)
    /\ pc' = "last_record"
    /\ UNCHANGED <<file, window, last_date, ticker_history, i, err, loaded,
                   writes, rerun>>

\* lines 20-36, the frame has a first row
ReadLast ==
    /\ pc = "last_record"
    /\ ~IlocRaises(df)
    /\ last_date' = LastDate(df)
    /\ pc' = "fetch"
    /\ UNCHANGED <<file, window, df, ticker_history, i, err, loaded, writes,
                   rerun>>

\* Slip: the missing first row is swallowed and the run goes on with no
\* reference date.
ReadLastFails_Swallowed ==
    /\ pc = "last_record"
    /\ IlocRaises(df)
    /\ last_date' = 0
    /\ pc' = "fetch"
    /\ UNCHANGED <<file, window, df, ticker_history, i, err, loaded, writes,
                   rerun>>

\* line 20, the frame has no row
ReadLastFails ==
    /\ pc = "last_record"
    /\ IlocRaises(df)
    /\ err' = "IndexError"
    /\ pc' = "failed"
    /\ UNCHANGED <<file, window, df, last_date, ticker_history, i, loaded,
                   writes, rerun>>

\* lines 40-48
Fetch ==
    /\ pc = "fetch"
    /\ ticker_history' = window
    /\ pc' = "latest"
    /\ UNCHANGED <<file, window, df, last_date, i, err, loaded, writes, rerun>>

\* line 48, the request raises
FetchFails ==
    /\ pc = "fetch"
    /\ err' = "FetchError"
    /\ pc' = "failed"
    /\ UNCHANGED <<file, window, df, last_date, ticker_history, i, loaded,
                   writes, rerun>>

\* lines 50-65, the history has a last row
Latest ==
    /\ pc = "latest"
    /\ ~TailRaises(ticker_history)
    /\ i' = 1
    /\ pc' = "loop"
    /\ UNCHANGED <<file, window, df, last_date, ticker_history, err, loaded,
                   writes, rerun>>

\* line 51, the history is empty
LatestFails ==
    /\ pc = "latest"
    /\ TailRaises(ticker_history)
    /\ err' = "IndexError"
    /\ pc' = "failed"
    /\ UNCHANGED <<file, window, df, last_date, ticker_history, i, loaded,
                   writes, rerun>>

\* lines 67-72: one iteration that takes the continue
LoopSkip ==
    /\ pc = "loop"
    /\ ~LoopDone(i, ticker_history)
    /\ ShouldSkip(ticker_history[i].date, last_date)
    /\ i' = i + 1
    /\ UNCHANGED <<file, window, pc, df, last_date, ticker_history, err, loaded,
                   writes, rerun>>

\* Slip: df.to_csv is indented into the loop body, the file is rewritten
\* after every added bar.
LoopInsert_Saves ==
    /\ pc = "loop"
    /\ ~LoopDone(i, ticker_history)
    /\ LET date == ticker_history[i].date
           row == ticker_history[i].row
       IN  /\ ~ShouldSkip(date, last_date)
           /\ ~IntRaises(row.Volume)
           /\ df' = Concat(NewRow(date, row), Trimmed(date, last_date, df))
           /\ file' = ToCsv(df')
    /\ i' = i + 1
    /\ UNCHANGED <<window, pc, last_date, ticker_history, err, loaded, writes,
                   rerun>>

\* lines 67-98: one iteration that adds the bar
LoopInsert ==
    /\ pc = "loop"
    /\ ~LoopDone(i, ticker_history)
    /\ LET date == ticker_history[i].date
           row == ticker_history[i].row
       IN  /\ ~ShouldSkip(date, last_date)
           /\ ~IntRaises(row.Volume)
           /\ df' = Concat(NewRow(date, row), Trimmed(date, last_date, df))
    /\ i' = i + 1
    /\ UNCHANGED <<file, window, pc, last_date, ticker_history, err, loaded,
                   writes, rerun>>

\* lines 67-84: one iteration that dies in int(row['Volume'])
LoopFails ==
    /\ pc = "loop"
    /\ ~LoopDone(i, ticker_history)
    /\ LET date == ticker_history[i].date
           row == ticker_history[i].row
       IN  /\ ~ShouldSkip(date, last_date)
           /\ IntRaises(row.Volume)
           /\ df' = Trimmed(date, last_date, df)
    /\ err' = "ValueError"
    /\ pc' = "failed"
    /\ UNCHANGED <<file, window, last_date, ticker_history, i, loaded, writes,
                   rerun>>

\* line 100: the loop has run out
LoopExit ==
    /\ pc = "loop"
    /\ LoopDone(i, ticker_history)
    /\ pc' = "save"
    /\ UNCHANGED <<file, window, df, last_date, ticker_history, i, err, loaded,
                   writes, rerun>>

\* lines 102-105
Save ==
    /\ pc = "save"
    /\ file' = ToCsv(df)
    /\ writes' = writes + 1
    /\ pc' = "done"
    /\ UNCHANGED <<window, df, last_date, ticker_history, i, err, loaded, rerun>>

\* The script is started again on the file it wrote; the provider answers
\* with the same window.
Rerun ==
    /\ pc = "done"
    /\ ~rerun
    /\ rerun' = TRUE
    /\ pc' = "read_csv"
    /\ df' = <<>>
    /\ last_date' = 0
    /\ ticker_history' = <<>>
    /\ i' = 1
    /\ loaded' = file
    /\ writes' = 0
    /\ UNCHANGED <<file, window, err>>

Next ==
    \/ Load
    \/ ReadLast
    \/ ReadLastFails
    \/ Fetch
    \/ FetchFails
    \/ Latest
    \/ LatestFails
    \/ LoopSkip
    \/ LoopInsert
    \/ LoopFails
    \/ LoopExit
    \/ Save
    \/ Rerun

Spec == Init /\ [][Next]_vars


\* ------------------------------------------------------------------------
\* Vocabulary of the properties.

\* The calendar date of a row, as the file shows it.
CalendarDate(r) == <<r.Year, r.Month, r.Day>>

\* Invariant I1 of a table: no two rows share a calendar date.
NoDuplicateDates(t) ==
    \A j, k \in 1..Len(t) : j # k => CalendarDate(t[j]) # CalendarDate(t[k])

\* A table sorted newest-first (ties allowed).
NewestFirst(t) ==
    \A k \in 1..(Len(t) - 1) : RowDate(t[k]) >= RowDate(t[k + 1])

\* Invariant I2 of a table, strict: every row is newer than the next one.
StrictlyNewestFirst(t) ==
    \A k \in 1..(Len(t) - 1) : RowDate(t[k]) > RowDate(t[k + 1])

\* A fetch window ordered oldest-to-newest: one bar per day, each day later
\* than the one before.
OldestToNewest(w) ==
    \A k \in 1..(Len(w) - 1) : w[k].date < w[k + 1].date

\* The newest date among the rows of a non-empty table.
NewestDate(t) ==
    CHOOSE d \in { RowDate(t[k]) : k \in 1..Len(t) } :
        \A k \in 1..Len(t) : RowDate(t[k]) <= d

\* The last n rows of a table.
LastRows(t, n) == SubSeq(t, Len(t) - n + 1, Len(t))

\* The run in progress started from a table the contract accepts and
\* fetched a window the contract accepts.
ContractInputs ==
    /\ Len(loaded) > 0
    /\ StrictlyNewestFirst(loaded)
    /\ OldestToNewest(window)

\* The merge rule as specified: each bar, in window order, is compared with
\* the newest date the table holds at that moment; an older bar is skipped,
\* an equal one replaces the row of that date, a newer one becomes the new
\* newest row.
SpecStep(t, b) ==
    LET newest == NewestDate(t)
        others == SelectSeq(t, LAMBDA r : RowDate(r) # b.date)
    IN  IF b.date < newest THEN t
        ELSE IF b.date = newest THEN <<NewRow(b.date, b.row)>> \o others
        ELSE <<NewRow(b.date, b.row)>> \o t

RECURSIVE SpecMergeFrom(_, _, _)
SpecMergeFrom(t, w, k) ==
    IF k > Len(w) THEN t ELSE SpecMergeFrom(SpecStep(t, w[k]), w, k + 1)

SpecMerge(t, w) == SpecMergeFrom(t, w, 1)

C3_BoundaryReplace ==
    (pc = "done" /\ ContractInputs) =>
        \A k \in 1..Len(window) :
            window[k].date = NewestDate(loaded) =>
                LET same == { j \in 1..Len(file) :
                                CalendarDate(file[j]) = CalendarDate(loaded[1]) }
                IN  /\ Cardinality(same) = 1
                    /\ \A j \in same :
                        /\ file[j].Open = window[k].row.Open
                        /\ file[j].High = window[k].row.High
                        /\ file[j].Low = window[k].row.Low
                        /\ file[j].Close = window[k].row.Close
                        /\ file[j].AdjClose = window[k].row.Close
                        /\ file[j].Volume = window[k].row.Volume

\* The example of the specification: a one-row table at close 100, a window
\* with the same day at close 101 and the next day at close 102.
C3_Witness ==
    /\ pc = "done"
    /\ ~rerun
    /\ loaded = <<OldRow(2)>>
    /\ Len(window) = 2
    /\ window[1].date = 2 /\ window[1].row.Close = 101
    /\ window[2].date = 3 /\ window[2].row.Close = 102
    /\ Len(file) = 2
    /\ RowDate(file[1]) = 3 /\ file[1].Close = 102
    /\ RowDate(file[2]) = 2 /\ file[2].Close = 101

\* C4. Idempotence under re-run: a second run with the same window, ordered
\* oldest-to-newest, on the table the first run wrote, writes that table
\* again.
C4_Idempotent ==
    (pc = "done" /\ rerun /\ OldestToNewest(window)) => file = loaded

\* The second run replaced the boundary row the first run had added.
C4_Witness ==
    /\ pc = "done"
    /\ rerun
    /\ OldestToNewest(window)
    /\ Len(window) = MaxWin
    /\ Len(loaded) > MaxWin
    /\ RowDate(loaded[1]) = window[Len(window)].date
    /\ window[1].date < RowDate(loaded[1])

\* C5. Already-present skip: the iteration of a bar strictly older than the
\* table's newest date changes neither the frame nor the file; and when
\* every bar of the window is strictly older, the written table is the
\* loaded one, row for row.
C5_SkipStep ==
    (/\ pc = "loop"
     /\ i <= Len(ticker_history)
     /\ StrictlyNewestFirst(loaded)
     /\ ticker_history[i].date < NewestDate(loaded))
    => (df' = df /\ file' = file /\ pc' = "loop")

C5_AllOlder ==
    /\ Len(loaded) > 0
    /\ StrictlyNewestFirst(loaded)
    /\ \A k \in 1..Len(window) : window[k].date < NewestDate(loaded)

\* C5: both parts, the skipping iteration and the run of older bars only.
C5_AlreadyPresentSkip ==
    /\ [][C5_SkipStep]_vars
    /\ []((pc = "done" /\ C5_AllOlder) => file = loaded)

\* A run over a full window of older bars has finished.
C5_Witness ==
    /\ pc = "done"
    /\ C5_AllOlder
    /\ Len(window) = MaxWin
    /\ Len(loaded) > 1
    /\ file = loaded

C7_NoPartialWrites ==
    /\ pc # "done" => (writes = 0 /\ file = loaded)
    /\ pc = "done" =>
        /\ writes = 1
        /\ i = Len(ticker_history) + 1
        /\ file = ToCsv(df)

\* A run failed in its second iteration, after the first had added a bar.
C7_Witness ==
    /\ pc = "failed"
    /\ err = "ValueError"
    /\ i = 2
    /\ Len(df) > Len(loaded)
    /\ file = loaded

\* C8 as stated. Malformed-bar failure: no bar with a missing field or a
\* negative volume is ever inserted, so no row of the frame or of the file
\* has a negative volume or a missing price.
C8_WellFormedRow(r) ==
    /\ r.Volume >= 0
    /\ r.Open # NaN /\ r.High # NaN /\ r.Low # NaN /\ r.Close # NaN

\* C8: every row of the frame and of the file is well formed.
C8_MalformedBarRejected ==
    /\ \A k \in 1..Len(df) : C8_WellFormedRow(df[k])
    /\ \A k \in 1..Len(file) : C8_WellFormedRow(file[k])

C10_Keeps(t) ==
    /\ Len(t) >= Len(loaded) - 1
    /\ LastRows(t, Len(loaded) - 1) = Tail(loaded)
    /\ (\A k \in 1..Len(window) : window[k].date # RowDate(loaded[1]))
         => (Len(t) >= Len(loaded) /\ LastRows(t, Len(loaded)) = loaded)

\* C10: the history is kept in the frame during the loop and in the file
\* the run writes.
C10_HistoryKept ==
    /\ pc \in {"loop", "save"} => C10_Keeps(df)
    /\ pc = "done" => C10_Keeps(file)

\* A run over a window out of order whose last bar has the boundary date.
C10_Witness ==
    /\ pc = "done"
    /\ Len(loaded) > 1
    /\ Len(window) = MaxWin
    /\ window[1].date > window[2].date
    /\ window[2].date = RowDate(loaded[1])
    /\ file # loaded

=============================================================================
